---------------------------- MODULE Spec2Model ----------------------------
(***************************************************************************)
(* A model of squid/squid.py: the Hodgkin-Huxley squid-axon set-up on top  *)
(* of the MOOSE engine (class IonChannel, class SquidAxon, class           *)
(* SquidModel).                                                            *)
(*                                                                         *)
(* Numbers.  Every number of the program is a Python float (or, after      *)
(* np.log, a numpy float64): a binary floating-point number.  The model    *)
(* keeps that: a finite float is m * 2^e with a significand m of Precision *)
(* bits, every operation rounds its exact result to nearest (ties to       *)
(* even), a result above the exponent range is an infinity and one below   *)
(* it is zero.  Precision and MaxExp are 53 and 1023 in the program; the   *)
(* model bounds them.  Subnormal numbers and the sign of zero are left     *)
(* out.                                                                    *)
(***************************************************************************)
EXTENDS Integers, Sequences, FiniteSets, TLC

(***************************************************************************)
(* Bounds of the model.                                                    *)
(***************************************************************************)
Precision == 11     \* bits of a float's significand
MaxExp == 40        \* a finite float lies in [2^-MaxExp, 2^(MaxExp+1))
MaxCalls == 3       \* calls made on the model in one behaviour

TwoP == 2^Precision
HalfP == 2^(Precision - 1)

(***************************************************************************)
(* Floats.                                                                 *)
(***************************************************************************)
Fin(m, e) == [cls |-> "fin", m |-> m, e |-> e]
Zero == Fin(0, 0)
PosInf == [cls |-> "inf", m |-> 1, e |-> 0]
NegInf == [cls |-> "inf", m |-> -1, e |-> 0]
NaN == [cls |-> "nan", m |-> 0, e |-> 0]
\* a ZeroDivisionError raised while the value was computed
ZeroDivisionError == [cls |-> "ZeroDivisionError", m |-> 0, e |-> 0]
\* an attribute that was never assigned
Unset == [cls |-> "unset", m |-> 0, e |-> 0]

IsFin(x) == x.cls = "fin"
IsInf(x) == x.cls = "inf"
IsNaN(x) == x.cls = "nan"
IsErr(x) == x.cls = "ZeroDivisionError"
IsZero(x) == IsFin(x) /\ x.m = 0
Sgn(x) == IF x.m > 0 THEN 1 ELSE IF x.m < 0 THEN -1 ELSE 0
Abs(n) == IF n < 0 THEN -n ELSE n
Inf(s) == IF s < 0 THEN NegInf ELSE PosInf

\* the nearest float to the positive rational (n / d) * 2^e
RECURSIVE RoundPos(_, _, _)
RoundPos(n, d, e) ==
    IF n < d * HalfP THEN RoundPos(2 * n, d, e - 1)
    ELSE IF n >= d * TwoP THEN RoundPos(n, 2 * d, e + 1)
    ELSE LET q == n \div d
             r == n % d
             up == 2 * r > d \/ (2 * r = d /\ q % 2 = 1)
             m == IF up THEN q + 1 ELSE q
             mm == IF m = TwoP THEN HalfP ELSE m
             ee == IF m = TwoP THEN e + 1 ELSE e
         IN IF ee + Precision - 1 > MaxExp THEN PosInf
            ELSE IF ee + Precision - 1 < -MaxExp THEN Zero
            ELSE Fin(mm, ee)

Neg(x) == [x EXCEPT !.m = -x.m]

\* the nearest float to the rational (n / d) * 2^e, d > 0
Round(n, d, e) ==
    IF n = 0 THEN Zero
    ELSE IF n > 0 THEN RoundPos(n, d, e)
    ELSE Neg(RoundPos(-n, d, e))

\* the float literal n / d
Lit(n, d) == Round(n, d, 0)

\* x * y
Mul(x, y) ==
    IF IsErr(x) \/ IsErr(y) THEN ZeroDivisionError
    ELSE IF IsNaN(x) \/ IsNaN(y) THEN NaN
    ELSE IF IsInf(x) \/ IsInf(y)
         THEN IF IsZero(x) \/ IsZero(y) THEN NaN ELSE Inf(Sgn(x) * Sgn(y))
    ELSE Round(x.m * y.m, 1, x.e + y.e)

\* x / y of two Python floats: a zero divisor raises
Div(x, y) ==
    IF IsErr(x) \/ IsErr(y) THEN ZeroDivisionError
    ELSE IF IsZero(y) THEN ZeroDivisionError
    ELSE IF IsNaN(x) \/ IsNaN(y) THEN NaN
    ELSE IF IsInf(x) THEN (IF IsInf(y) THEN NaN ELSE Inf(Sgn(x) * Sgn(y)))
    ELSE IF IsInf(y) THEN Zero
    ELSE Round(x.m * Sgn(y), Abs(y.m), x.e - y.e)

\* x + y
Add(x, y) ==
    IF IsErr(x) \/ IsErr(y) THEN ZeroDivisionError
    ELSE IF IsNaN(x) \/ IsNaN(y) THEN NaN
    ELSE IF IsInf(x) THEN (IF IsInf(y) /\ Sgn(x) # Sgn(y) THEN NaN ELSE x)
    ELSE IF IsInf(y) THEN y
    ELSE IF IsZero(x) THEN y
    ELSE IF IsZero(y) THEN x
    ELSE IF x.e - y.e > Precision + 2 THEN x
    ELSE IF y.e - x.e > Precision + 2 THEN y
    ELSE LET lo == IF x.e < y.e THEN x.e ELSE y.e
         IN Round(x.m * 2^(x.e - lo) + y.m * 2^(y.e - lo), 1, lo)

Sub(x, y) == Add(x, Neg(y))

\* x < y, x <= y for two floats that are finite or infinite
Less(x, y) == LET d == Sub(y, x) IN ~IsNaN(d) /\ Sgn(d) > 0
Leq(x, y) == x = y \/ Less(x, y)

\* The first k bits of the fraction of log2(Y / LogScale), 1 <= Y / LogScale < 2,
\* by repeated squaring.
LogScale == 2^(Precision + 2)
LogBits == Precision - 1
RECURSIVE Log2Frac(_, _)
Log2Frac(Y, k) ==
    IF k = 0 THEN 0
    ELSE LET sq == (Y * Y) \div LogScale
         IN IF sq >= 2 * LogScale
            THEN 2^(k - 1) + Log2Frac(sq \div 2, k - 1)
            ELSE Log2Frac(sq, k - 1)

LN2 == Lit(69315, 100000)

\* np.log(x): -inf at 0 and nan below it (numpy warns and goes on)
Log(x) ==
    IF IsErr(x) THEN ZeroDivisionError
    ELSE IF IsNaN(x) THEN NaN
    ELSE IF IsInf(x) THEN (IF Sgn(x) > 0 THEN PosInf ELSE NaN)
    ELSE IF x.m = 0 THEN NegInf
    ELSE IF x.m < 0 THEN NaN
    ELSE LET whole == x.e + Precision - 1
             frac == Log2Frac(x.m * (LogScale \div HalfP), LogBits)
         IN Mul(Round(whole * 2^LogBits + frac, 2^LogBits, 0), LN2)

(***************************************************************************)
(* Module constants, squid.py lines 10-12.                                 *)
(***************************************************************************)
GAS_CONSTANT == Lit(8314, 1000)
FARADAY == Lit(96500, 1)
CELSIUS_TO_KELVIN == Lit(27315, 100)
\* np.pi
pi == Lit(314159, 100000)
\* the literal 1e-8 of xarea and area: 10^-8 = 5^-8 * 2^-8
CM2_PER_UM2 == Round(1, 390625, -8)

(***************************************************************************)
(* The body of class SquidAxon, lines 113-171.  Python evaluates it once,  *)
(* when the class is defined, with the EREST_ACT of that moment: E.        *)
(***************************************************************************)
VMIN == Lit(-30, 1)
VMAX == Lit(120, 1)
VDIVS == 150

defaults_body(E) ==
    [ temperature |-> Add(CELSIUS_TO_KELVIN, Lit(63, 10)),
      K_out |-> Lit(10, 1),
      Na_out |-> Lit(460, 1),
      K_in |-> Lit(3014, 10),
      Na_in |-> Lit(7097, 100),
      Cl_out |-> Lit(540, 1),
      Cl_in |-> Lit(100, 1),
      length |-> Lit(500, 1),
      diameter |-> Lit(500, 1),
      Em |-> Add(E, Lit(10613, 1000)),
      initVm |-> E,
      specific_cm |-> Lit(1, 1),
      specific_gl |-> Lit(3, 10),
      specific_ra |-> Lit(30, 1000),
      specific_gNa |-> Lit(120, 1),
      specific_gK |-> Lit(36, 1) ]

Na_m_params_body(E) ==
    [ A_A |-> Mul(Lit(1, 10), Add(Lit(25, 1), E)),
      A_B |-> Lit(-1, 10),
      A_C |-> Lit(-1, 1),
      A_D |-> Sub(Lit(-25, 1), E),
      A_F |-> Lit(-10, 1),
      B_A |-> Lit(4, 1),
      B_B |-> Zero,
      B_C |-> Zero,
      B_D |-> Sub(Zero, E),
      B_F |-> Lit(18, 1) ]

Na_h_params_body(E) ==
    [ A_A |-> Lit(7, 100),
      A_B |-> Zero,
      A_C |-> Zero,
      A_D |-> Sub(Zero, E),
      A_F |-> Lit(20, 1),
      B_A |-> Lit(1, 1),
      B_B |-> Zero,
      B_C |-> Lit(1, 1),
      B_D |-> Sub(Lit(-30, 1), E),
      B_F |-> Lit(-10, 1) ]

K_n_params_body(E) ==
    [ A_A |-> Mul(Lit(1, 100), Add(Lit(10, 1), E)),
      A_B |-> Lit(-1, 100),
      A_C |-> Lit(-1, 1),
      A_D |-> Sub(Lit(-10, 1), E),
      A_F |-> Lit(-10, 1),
      B_A |-> Lit(125, 1000),
      B_B |-> Zero,
      B_C |-> Zero,
      B_D |-> Sub(Zero, E),
      B_F |-> Lit(80, 1) ]

(***************************************************************************)
(* class IonChannel, lines 15-109.  An IonChannel is a Python object that  *)
(* holds a moose.HHChannel in its field chan; the engine reads chan.  The  *)
(* fields Gbar and Ek below are the attributes of the Python object        *)
(* itself, which exist once something assigns them.  gateX and gateY are   *)
(* what the engine's gates were given: the 13 arguments of their           *)
(* setupAlpha.                                                             *)
(***************************************************************************)
ParamKeys == {"A_A", "A_B", "A_C", "A_D", "A_F", "B_A", "B_B", "B_C", "B_D", "B_F"}
NoGate ==
    [configured |-> FALSE, params |-> [k \in ParamKeys |-> Zero],
     vdivs |-> 0, vmin |-> Zero, vmax |-> Zero]
NoChannel ==
    [exists |-> FALSE,
     chan |-> [Gbar |-> Unset, Ek |-> Unset, Xpower |-> Unset,
               Ypower |-> Unset, Zpower |-> Unset],
     Gbar |-> Unset, Ek |-> Unset, gateX |-> NoGate, gateY |-> NoGate]

\* cross section and area of a compartment c, in cm^2
xarea(c) ==
    Div(Mul(Mul(Mul(CM2_PER_UM2, pi), c.diameter), c.diameter), Lit(4, 1))

\* A variant of area that keeps the area of the 500 um x 500 um of the defaults
\* instead of taking it from the compartment.
area_cached(c) == Mul(Mul(Mul(CM2_PER_UM2, Lit(500, 1)), pi), Lit(500, 1))

area(c) == Mul(Mul(Mul(CM2_PER_UM2, c.length), pi), c.diameter)

\* IonChannel.__init__ on the compartment c
IonChannel_init(c, specific_gbar, e_rev, Xpower, Ypower, Zpower) ==
    [exists |-> TRUE,
     chan |-> [Gbar |-> Mul(specific_gbar, area(c)), Ek |-> e_rev,
               Xpower |-> Xpower, Ypower |-> Ypower, Zpower |-> Zpower],
     Gbar |-> Unset, Ek |-> Unset, gateX |-> NoGate, gateY |-> NoGate]

\* what gate.setupAlpha([...]) leaves in the engine's gate
GateTable(params, vdivs, vmin, vmax) ==
    [configured |-> TRUE, params |-> [k \in ParamKeys |-> params[k]],
     vdivs |-> vdivs, vmin |-> vmin, vmax |-> vmax]

\* IonChannel.setupAlpha: the value returned and the channel afterwards
\* A variant of setupAlpha that does not look at the powers.
setupAlpha_anyPower(ch, gate, params, vdivs, vmin, vmax) ==
    IF gate = "X"
    THEN [ret |-> "True",
          ch |-> [ch EXCEPT !.gateX = GateTable(params, vdivs, vmin, vmax)]]
    ELSE IF gate = "Y"
    THEN [ret |-> "True",
          ch |-> [ch EXCEPT !.gateY = GateTable(params, vdivs, vmin, vmax)]]
    ELSE [ret |-> "False", ch |-> ch]

setupAlpha(ch, gate, params, vdivs, vmin, vmax) ==
    IF gate = "X" /\ Sgn(ch.chan.Xpower) > 0
    THEN [ret |-> "True",
          ch |-> [ch EXCEPT !.gateX = GateTable(params, vdivs, vmin, vmax)]]
    ELSE IF gate = "Y" /\ Sgn(ch.chan.Ypower) > 0
    THEN [ret |-> "True",
          ch |-> [ch EXCEPT !.gateY = GateTable(params, vdivs, vmin, vmax)]]
    ELSE [ret |-> "False", ch |-> ch]

\* What the table getters return: np.array([]), or an array made of the tables of
\* one gate of the engine.
EmptyArray == [kind |-> "array", of |-> "nothing", gate |-> "none"]
NoArray == [kind |-> "none", of |-> "nothing", gate |-> "none"]

get_alpha_m(ch) ==
    IF IsZero(ch.chan.Xpower) THEN EmptyArray
    ELSE [kind |-> "array", of |-> "tableA", gate |-> "gateX"]

get_beta_m(ch) ==
    IF IsZero(ch.chan.Xpower) THEN EmptyArray
    ELSE [kind |-> "array", of |-> "tableB - tableA", gate |-> "gateX"]

get_alpha_h(ch) ==
    IF IsZero(ch.chan.Ypower) THEN EmptyArray
    ELSE [kind |-> "array", of |-> "tableA", gate |-> "gateY"]

get_beta_h(ch) ==
    IF IsZero(ch.chan.Ypower) THEN EmptyArray
    ELSE [kind |-> "array", of |-> "tableB - tableA", gate |-> "gateY"]

(***************************************************************************)
(* The state.                                                              *)
(***************************************************************************)
VARIABLES
    EREST_ACT,      \* SquidAxon.EREST_ACT, read by reversal_potential when called
    defaults,       \* SquidAxon.defaults
    Na_m_params,    \* SquidAxon.Na_m_params
    Na_h_params,    \* SquidAxon.Na_h_params
    K_n_params,     \* SquidAxon.K_n_params
    constructed,    \* a SquidModel, and with it its SquidAxon, exists
    squid,          \* the SquidAxon's own attributes
    compt,          \* squid.compt, the engine's compartment
    channel,        \* the IonChannels: squid.Na_channel, squid.K_channel, and one more
    engine,         \* what moose.reinit() and moose.start() have done
    pc,             \* the statement of SquidModel.run to execute next, 0 outside run
    runLog,         \* what the current call of run has invoked so far
    calls,          \* the last two calls made: <<the one before, the last>>
    ncalls,         \* calls made so far
    rp              \* arguments and results of two calls of reversal_potential

vars ==
    <<EREST_ACT, defaults, Na_m_params, Na_h_params, K_n_params, constructed,
      squid, compt, channel, engine, pc, runLog, calls, ncalls, rp>>

classVars == <<EREST_ACT, defaults, Na_m_params, Na_h_params, K_n_params>>

(***************************************************************************)
(* class SquidAxon, lines 218-303.                                         *)
(***************************************************************************)
\* A variant of reversal_potential with the quotient upside down.
reversal_potential_inverted(temp, c_out, c_in) ==
    Add(Add(Mul(Mul(Div(Mul(GAS_CONSTANT, temp), FARADAY), Lit(1000, 1)),
                Log(Div(c_in, c_out))),
            Lit(70, 1)),
        EREST_ACT)

reversal_potential(temp, c_out, c_in) ==
    Add(Add(Mul(Mul(Div(Mul(GAS_CONSTANT, temp), FARADAY), Lit(1000, 1)),
                Log(Div(c_out, c_in))),
            Lit(70, 1)),
        EREST_ACT)

get_specific_ra(c) == Div(Mul(c.Ra, xarea(c)), c.length)
set_specific_ra(c, value) == Div(Mul(value, c.length), xarea(c))

get_specific_cm(c) == Div(c.Cm, area(c))
set_specific_cm(c, value) == Mul(value, area(c))

\* A variant of the specific_gl getter without the reciprocal.
get_specific_gl_noReciprocal(c) == Mul(c.Rm, area(c))

get_specific_gl(c) == Div(Lit(1, 1), Mul(c.Rm, area(c)))
set_specific_gl(c, value) == Div(Lit(1, 1), Mul(value, area(c)))

get_specific_rm(c) == Mul(c.Rm, area(c))
set_specific_rm(c, value) == Div(value, area(c))

\* ch is self.Na_channel or self.K_channel, the Python object
get_specific_gNa(c, ch) == Div(ch.Gbar, area(c))
set_specific_gNa(c, value) == Mul(value, area(c))

get_specific_gK(c, ch) == Div(ch.Gbar, area(c))
set_specific_gK(c, value) == Mul(value, area(c))

get_VK(s) == reversal_potential(s.temperature, s.K_out, s.K_in)
get_VNa(s) == reversal_potential(s.temperature, s.Na_out, s.Na_in)

get_celsius(s) == Sub(s.temperature, CELSIUS_TO_KELVIN)
set_celsius(celsius) == Add(celsius, CELSIUS_TO_KELVIN)


\* SquidAxon.updateEk on the axon s and its channels chs
updateEk(s, chs) ==
    LET vna == get_VNa(s)
        vk == get_VK(s)
        c1 == [chs EXCEPT !["Na"].Ek = vna]
    IN IF IsErr(vna) THEN [raised |-> TRUE, channel |-> chs]
       ELSE IF IsErr(vk) THEN [raised |-> TRUE, channel |-> c1]
       ELSE [raised |-> FALSE, channel |-> [c1 EXCEPT !["K"].Ek = vk]]

\* SquidAxon.__init__, lines 177-186: the axon's own attributes
Axon_attributes ==
    [temperature |-> defaults.temperature,
     K_out |-> defaults.K_out, Na_out |-> defaults.Na_out,
     K_in |-> defaults.K_in, Na_in |-> defaults.Na_in,
     Cl_out |-> defaults.Cl_out, Cl_in |-> defaults.Cl_in]

\* lines 188-195: the compartment, its passive properties set one after the other
WithCm(c) == [c EXCEPT !.Cm = set_specific_cm(c, defaults.specific_cm)]
WithRm(c) == [c EXCEPT !.Rm = set_specific_gl(c, defaults.specific_gl)]
WithRa(c) == [c EXCEPT !.Ra = set_specific_ra(c, defaults.specific_ra)]
Axon_compartment ==
    WithRa(WithRm(WithCm(
        [length |-> defaults.length, diameter |-> defaults.diameter,
         Em |-> defaults.Em, initVm |-> defaults.initVm,
         Cm |-> Unset, Rm |-> Unset, Ra |-> Unset])))

\* lines 197-208 and 215: the Na channel, its two gates, then specific_gNa
Axon_Na_channel(s, c) ==
    [setupAlpha(
        setupAlpha(
            IonChannel_init(c, Zero, get_VNa(s), Lit(3, 1), Lit(1, 1), Zero),
            "X", Na_m_params, VDIVS, VMIN, VMAX).ch,
        "Y", Na_h_params, VDIVS, VMIN, VMAX).ch
     EXCEPT !.Gbar = set_specific_gNa(c, defaults.specific_gNa)]

\* lines 210-213 and 216: the K channel, its gate, then specific_gK
Axon_K_channel(s, c) ==
    [setupAlpha(
        IonChannel_init(c, Zero, get_VK(s), Lit(4, 1), Zero, Zero),
        "X", K_n_params, VDIVS, VMIN, VMAX).ch
     EXCEPT !.Gbar = set_specific_gK(c, defaults.specific_gK)]

\* SquidAxon.__init__: the axon, its compartment and its two channels, or the
\* exception that ends it
Axon_parts(s, c, na, k) ==
    [raised |-> IsErr(c.Rm) \/ IsErr(c.Ra) \/ IsErr(na.chan.Ek) \/ IsErr(k.chan.Ek),
     squid |-> s, compt |-> c, Na_channel |-> na, K_channel |-> k]

SquidAxon_init ==
    Axon_parts(Axon_attributes, Axon_compartment,
               Axon_Na_channel(Axon_attributes, Axon_compartment),
               Axon_K_channel(Axon_attributes, Axon_compartment))

(***************************************************************************)
(* class SquidModel, lines 306-333: the statements of run, in order.       *)
(***************************************************************************)
\* A variant of run that leaves the refresh out.
RunOrder_noRefresh == <<"reinit", "start">>

RunOrder == <<"updateEk", "reinit", "start">>

(***************************************************************************)
(* Inputs.                                                                 *)
(***************************************************************************)
ChannelNames == {"Na", "K", "Ch"}
Huge == Fin(HalfP, MaxExp - 1 - (Precision - 1))
Tiny == Fin(HalfP, 1 - MaxExp - (Precision - 1))
ErestInputs == {Lit(-70, 1)}
DefaultInputs == {<<"K_out", Zero>>, <<"K_in", Zero>>, <<"length", Zero>>}
TemperatureInputs == {Lit(29315, 100)}
CelsiusInputs == {Lit(20, 1)}
IonNames == {"K_out", "K_in", "Na_out", "Na_in"}
ConcInputs == {Zero, Lit(50, 1), Tiny}
LengthInputs == {Zero, Lit(250, 1), Tiny}
DiameterInputs == {Zero, Lit(250, 1)}
Quantities == {"ra", "cm", "gl", "rm", "gNa", "gK"}
SpecificInputs == {Lit(3, 100), Lit(36, 1)}
PowerInputs == {<<Lit(3, 1), Lit(1, 1), Zero>>, <<Zero, Lit(1, 1), Zero>>,
                <<Lit(4, 1), Zero, Lit(1, 1)>>, <<Zero, Zero, Zero>>}
GateNames == {"X", "Y", "Z"}
ParamNames == {"Na_m_params", "K_n_params"}
TableGetters == {"get_alpha_m", "get_beta_m", "get_alpha_h", "get_beta_h"}

(***************************************************************************)
(* Calls.  A call is recorded with its argument and with what it returned  *)
(* or raised.                                                              *)
(***************************************************************************)
None == [cls |-> "None", m |-> 0, e |-> 0]
Bool(b) == [cls |-> b, m |-> 0, e |-> 0]
Call(op, on, what, arg, ret, tbl) ==
    [op |-> op, on |-> on, what |-> what, arg |-> arg, ret |-> ret, tbl |-> tbl]
NoCall == Call("none", "", "", Unset, Unset, NoArray)
Last == calls[2]
Prev == calls[1]

CanCall == pc = 0 /\ ncalls < MaxCalls
Record(c) == calls' = <<calls[2], c>> /\ ncalls' = ncalls + 1

NoRp ==
    [state |-> "idle", T |-> Unset, a_out |-> Unset, a_in |-> Unset,
     b_out |-> Unset, b_in |-> Unset, va |-> Unset, vb |-> Unset]

(***************************************************************************)
(* The initial state: the module is imported, the classes are defined      *)
(* (EREST_ACT = 0.0, line 113), no model is built yet.                     *)
(***************************************************************************)
NoInstance ==
    /\ constructed = FALSE
    /\ squid = [temperature |-> Unset, K_out |-> Unset, Na_out |-> Unset,
                K_in |-> Unset, Na_in |-> Unset, Cl_out |-> Unset, Cl_in |-> Unset]
    /\ compt = [length |-> Unset, diameter |-> Unset, Em |-> Unset,
                initVm |-> Unset, Cm |-> Unset, Rm |-> Unset, Ra |-> Unset]
    /\ channel = [n \in ChannelNames |-> NoChannel]
    /\ engine = [state |-> "fresh", NaEk |-> Unset, KEk |-> Unset,
                 NaGbar |-> Unset, KGbar |-> Unset]
    /\ pc = 0
    /\ runLog = <<>>
    /\ calls = <<NoCall, NoCall>>
    /\ ncalls = 0

Init ==
    /\ EREST_ACT = Zero
    /\ defaults = defaults_body(EREST_ACT)
    /\ Na_m_params = Na_m_params_body(EREST_ACT)
    /\ Na_h_params = Na_h_params_body(EREST_ACT)
    /\ K_n_params = K_n_params_body(EREST_ACT)
    /\ NoInstance
    /\ rp = NoRp

(***************************************************************************)
(* Assignments to the class attributes.                                    *)
(***************************************************************************)
\* SquidAxon.EREST_ACT = v
SetEREST_ACT(v) ==
    /\ CanCall
    /\ EREST_ACT' = v
    /\ Record(Call("EREST_ACT =", "SquidAxon", "", v, None, NoArray))
    /\ UNCHANGED <<defaults, Na_m_params, Na_h_params, K_n_params, constructed,
                   squid, compt, channel, engine, pc, runLog, rp>>

\* SquidAxon.defaults[k] = v
SetDefault(k, v) ==
    /\ CanCall
    /\ defaults' = [defaults EXCEPT ![k] = v]
    /\ Record(Call("defaults[] =", "SquidAxon", k, v, None, NoArray))
    /\ UNCHANGED <<EREST_ACT, Na_m_params, Na_h_params, K_n_params, constructed,
                   squid, compt, channel, engine, pc, runLog, rp>>

(***************************************************************************)
(* SquidModel.__init__, lines 308-328, which builds the SquidAxon.         *)
(***************************************************************************)
Construct ==
    /\ pc = 0
    /\ ~constructed
    /\ LET r == SquidAxon_init
       IN IF r.raised
          THEN /\ calls' = <<calls[2],
                             Call("SquidModel", "", "", Unset, ZeroDivisionError, NoArray)>>
               /\ UNCHANGED <<constructed, squid, compt, channel>>
          ELSE /\ constructed' = TRUE
               /\ squid' = r.squid
               /\ compt' = r.compt
               /\ channel' = [channel EXCEPT !["Na"] = r.Na_channel,
                                             !["K"] = r.K_channel]
               /\ calls' = <<calls[2], Call("SquidModel", "", "", Unset, None, NoArray)>>
    /\ UNCHANGED <<classVars, engine, pc, runLog, ncalls, rp>>

(***************************************************************************)
(* Temperature, concentrations, reversal potentials, run.                  *)
(***************************************************************************)
\* squid.temperature = v
SetTemperature(v) ==
    /\ CanCall /\ constructed
    /\ squid' = [squid EXCEPT !.temperature = v]
    /\ Record(Call("temperature =", "squid", "", v, None, NoArray))
    /\ UNCHANGED <<classVars, constructed, compt, channel, engine, pc, runLog, rp>>

\* squid.celsius = c
Set_celsius(c) ==
    /\ CanCall /\ constructed
    /\ squid' = [squid EXCEPT !.temperature = set_celsius(c)]
    /\ Record(Call("celsius =", "squid", "", c, None, NoArray))
    /\ UNCHANGED <<classVars, constructed, compt, channel, engine, pc, runLog, rp>>

\* squid.K_out = v, and so on
SetConc(ion, v) ==
    /\ CanCall /\ constructed
    /\ squid' = [squid EXCEPT ![ion] = v]
    /\ Record(Call("concentration =", "squid", ion, v, None, NoArray))
    /\ UNCHANGED <<classVars, constructed, compt, channel, engine, pc, runLog, rp>>

\* squid.updateEk()
UpdateEk ==
    /\ CanCall /\ constructed
    /\ LET r == updateEk(squid, channel)
       IN /\ channel' = r.channel
          /\ Record(Call("updateEk", "squid", "", Unset,
                         IF r.raised THEN ZeroDivisionError ELSE None, NoArray))
    /\ UNCHANGED <<classVars, constructed, squid, compt, engine, pc, runLog, rp>>

NextPc == IF pc >= Len(RunOrder) THEN 0 ELSE pc + 1
Returned(ret) == <<calls[1], [calls[2] EXCEPT !.ret = ret]>>

\* model.run(runtime) is called
Run_call ==
    /\ CanCall /\ constructed
    /\ pc' = 1
    /\ runLog' = <<>>
    /\ Record(Call("run", "model", "", Unset, Unset, NoArray))
    /\ UNCHANGED <<classVars, constructed, squid, compt, channel, engine, rp>>

\* line 331
Run_updateEk ==
    /\ pc >= 1 /\ pc <= Len(RunOrder) /\ RunOrder[pc] = "updateEk"
    /\ runLog' = Append(runLog, "updateEk")
    /\ LET r == updateEk(squid, channel)
       IN /\ channel' = r.channel
          /\ pc' = IF r.raised THEN 0 ELSE NextPc
          /\ calls' = IF r.raised THEN Returned(ZeroDivisionError)
                      ELSE IF NextPc = 0 THEN Returned(None) ELSE calls
    /\ UNCHANGED <<classVars, constructed, squid, compt, engine, ncalls, rp>>

\* line 332: the engine takes the channels' parameters
Run_reinit ==
    /\ pc >= 1 /\ pc <= Len(RunOrder) /\ RunOrder[pc] = "reinit"
    /\ runLog' = Append(runLog, "reinit")
    /\ engine' = [state |-> "reinit",
                  NaEk |-> channel["Na"].chan.Ek, KEk |-> channel["K"].chan.Ek,
                  NaGbar |-> channel["Na"].chan.Gbar,
                  KGbar |-> channel["K"].chan.Gbar]
    /\ pc' = NextPc
    /\ calls' = IF NextPc = 0 THEN Returned(None) ELSE calls
    /\ UNCHANGED <<classVars, constructed, squid, compt, channel, ncalls, rp>>

\* line 333
Run_start ==
    /\ pc >= 1 /\ pc <= Len(RunOrder) /\ RunOrder[pc] = "start"
    /\ runLog' = Append(runLog, "start")
    /\ engine' = [engine EXCEPT !.state = "started"]
    /\ pc' = NextPc
    /\ calls' = IF NextPc = 0 THEN Returned(None) ELSE calls
    /\ UNCHANGED <<classVars, constructed, squid, compt, channel, ncalls, rp>>

(***************************************************************************)
(* Geometry and the specific quantities.                                   *)
(***************************************************************************)
\* squid.compt.length = v
SetLength(v) ==
    /\ CanCall /\ constructed
    /\ compt' = [compt EXCEPT !.length = v]
    /\ Record(Call("length =", "compt", "", v, None, NoArray))
    /\ UNCHANGED <<classVars, constructed, squid, channel, engine, pc, runLog, rp>>

\* squid.compt.diameter = v
SetDiameter(v) ==
    /\ CanCall /\ constructed
    /\ compt' = [compt EXCEPT !.diameter = v]
    /\ Record(Call("diameter =", "compt", "", v, None, NoArray))
    /\ UNCHANGED <<classVars, constructed, squid, channel, engine, pc, runLog, rp>>

\* the absolute value that squid.specific_<q> = value stores
SetterValue(q, value) ==
    CASE q = "ra" -> set_specific_ra(compt, value)
      [] q = "cm" -> set_specific_cm(compt, value)
      [] q = "gl" -> set_specific_gl(compt, value)
      [] q = "rm" -> set_specific_rm(compt, value)
      [] q = "gNa" -> set_specific_gNa(compt, value)
      [] q = "gK" -> set_specific_gK(compt, value)

\* what squid.specific_<q> returns
GetterValue(q) ==
    CASE q = "ra" -> get_specific_ra(compt)
      [] q = "cm" -> get_specific_cm(compt)
      [] q = "gl" -> get_specific_gl(compt)
      [] q = "rm" -> get_specific_rm(compt)
      [] q = "gNa" -> get_specific_gNa(compt, channel["Na"])
      [] q = "gK" -> get_specific_gK(compt, channel["K"])

\* squid.specific_<q> = value
Set_specific(q, value) ==
    /\ CanCall /\ constructed
    /\ LET new == SetterValue(q, value)
       IN IF IsErr(new)
          THEN /\ Record(Call("set_specific", "squid", q, value, ZeroDivisionError, NoArray))
               /\ UNCHANGED <<compt, channel>>
          ELSE /\ Record(Call("set_specific", "squid", q, value, None, NoArray))
               /\ compt' = CASE q = "ra" -> [compt EXCEPT !.Ra = new]
                             [] q = "cm" -> [compt EXCEPT !.Cm = new]
                             [] q \in {"gl", "rm"} -> [compt EXCEPT !.Rm = new]
                             [] OTHER -> compt
               /\ channel' = CASE q = "gNa" -> [channel EXCEPT !["Na"].Gbar = new]
                               [] q = "gK" -> [channel EXCEPT !["K"].Gbar = new]
                               [] OTHER -> channel
    /\ UNCHANGED <<classVars, constructed, squid, engine, pc, runLog, rp>>

\* squid.specific_<q>
Get_specific(q) ==
    /\ CanCall /\ constructed
    /\ Record(Call("get_specific", "squid", q, Unset, GetterValue(q), NoArray))
    /\ UNCHANGED <<classVars, constructed, squid, compt, channel, engine, pc,
                   runLog, rp>>

(***************************************************************************)
(* Channels and gates.                                                     *)
(***************************************************************************)
ParamsNamed(n) ==
    CASE n = "Na_m_params" -> Na_m_params
      [] n = "Na_h_params" -> Na_h_params
      [] n = "K_n_params" -> K_n_params

\* IonChannel("Ch", squid, 1.0, 0.0, Xpower, Ypower, Zpower)
NewIonChannel(p) ==
    /\ CanCall /\ constructed
    /\ channel' = [channel EXCEPT
                     !["Ch"] = IonChannel_init(compt, Lit(1, 1), Zero, p[1], p[2], p[3])]
    /\ Record(Call("IonChannel", "Ch", "", Unset, None, NoArray))
    /\ UNCHANGED <<classVars, constructed, squid, compt, engine, pc, runLog, rp>>

\* <n>.setupAlpha(gate, params, VDIVS, VMIN, VMAX)
SetupAlpha(n, gate, params) ==
    /\ CanCall /\ channel[n].exists
    /\ LET r == setupAlpha(channel[n], gate, ParamsNamed(params), VDIVS, VMIN, VMAX)
       IN /\ channel' = [channel EXCEPT ![n] = r.ch]
          /\ Record(Call("setupAlpha", n, gate, Unset, Bool(r.ret), NoArray))
    /\ UNCHANGED <<classVars, constructed, squid, compt, engine, pc, runLog, rp>>

\* <n>.get_alpha_m(), and the other three
GetTable(n, getter) ==
    /\ CanCall /\ channel[n].exists
    /\ LET t == CASE getter = "get_alpha_m" -> get_alpha_m(channel[n])
                  [] getter = "get_beta_m" -> get_beta_m(channel[n])
                  [] getter = "get_alpha_h" -> get_alpha_h(channel[n])
                  [] getter = "get_beta_h" -> get_beta_h(channel[n])
       IN Record(Call(getter, n, "", Unset, Unset, t))
    /\ UNCHANGED <<classVars, constructed, squid, compt, channel, engine, pc,
                   runLog, rp>>

(***************************************************************************)
(* reversal_potential on its own: two calls at one temperature.            *)
(***************************************************************************)
ErestValues == {Zero, Lit(-70, 1)}
TemperatureArgs == {Add(CELSIUS_TO_KELVIN, Lit(63, 10)), Lit(29315, 100), Huge}
ConcArgs == {Tiny, Lit(10, 1), Lit(7097, 100), Lit(3014, 10), Huge}

InitNernst ==
    /\ EREST_ACT \in ErestValues
    /\ defaults = defaults_body(EREST_ACT)
    /\ Na_m_params = Na_m_params_body(EREST_ACT)
    /\ Na_h_params = Na_h_params_body(EREST_ACT)
    /\ K_n_params = K_n_params_body(EREST_ACT)
    /\ NoInstance
    /\ rp \in [state : {"args"}, T : TemperatureArgs, a_out : ConcArgs,
               a_in : ConcArgs, b_out : ConcArgs, b_in : ConcArgs,
               va : {Unset}, vb : {Unset}]

Nernst_call ==
    /\ rp.state = "args"
    /\ rp' = [rp EXCEPT !.state = "done",
                        !.va = reversal_potential(rp.T, rp.a_out, rp.a_in),
                        !.vb = reversal_potential(rp.T, rp.b_out, rp.b_in)]
    /\ UNCHANGED <<classVars, constructed, squid, compt, channel, engine, pc,
                   runLog, calls, ncalls>>

(***************************************************************************)
(* Specifications.                                                         *)
(***************************************************************************)
\* reversal potentials and run
NextEk ==
    \/ \E v \in ErestInputs : SetEREST_ACT(v)
    \/ \E d \in DefaultInputs : SetDefault(d[1], d[2])
    \/ Construct
    \/ \E v \in TemperatureInputs : SetTemperature(v)
    \/ \E c \in CelsiusInputs : Set_celsius(c)
    \/ \E ion \in IonNames, v \in ConcInputs : SetConc(ion, v)
    \/ UpdateEk
    \/ Run_call
    \/ Run_updateEk
    \/ Run_reinit
    \/ Run_start

SpecEk == Init /\ [][NextEk]_vars

\* geometry and specific quantities
NextGeom ==
    \/ Construct
    \/ \E v \in LengthInputs : SetLength(v)
    \/ \E v \in DiameterInputs : SetDiameter(v)
    \/ \E q \in Quantities, v \in SpecificInputs : Set_specific(q, v)
    \/ \E q \in Quantities : Get_specific(q)

SpecGeom == Init /\ [][NextGeom]_vars

\* channels and gates
NextGates ==
    \/ Construct
    \/ \E p \in PowerInputs : NewIonChannel(p)
    \/ \E n \in ChannelNames, g \in GateNames, ps \in ParamNames : SetupAlpha(n, g, ps)
    \/ \E n \in ChannelNames, g \in TableGetters : GetTable(n, g)

SpecGates == Init /\ [][NextGates]_vars

SpecNernst == InitNernst /\ [][Nernst_call]_vars

Next == NextEk \/ NextGeom \/ NextGates
Spec == Init /\ [][Next]_vars

(***************************************************************************)
(* Helpers of the properties.                                              *)
(***************************************************************************)
Positive(x) == IsFin(x) /\ x.m > 0
\* neither zero, nor infinite, nor nan, nor an exception
Normal(x) == IsFin(x) /\ x.m # 0

\* |r - v| <= 5 * 2^-Precision * |v|, exactly, for two normal floats
Close(r, v) ==
    /\ Normal(r) /\ Normal(v)
    /\ r.e - v.e <= 2 /\ v.e - r.e <= 2
    /\ LET lo == IF r.e < v.e THEN r.e ELSE v.e
           d == Abs(r.m * 2^(r.e - lo) - v.m * 2^(v.e - lo))
       IN d * TwoP <= 5 * Abs(v.m) * 2^(v.e - lo)

\* x1 * x2 <= y1 * y2 and x1 * x2 < y1 * y2, exactly, for positive floats
NormProd(m, e) == IF m < 2^(2 * Precision - 1) THEN <<2 * m, e - 1>> ELSE <<m, e>>
ProdLeq(x1, x2, y1, y2) ==
    LET p == NormProd(x1.m * x2.m, x1.e + x2.e)
        q == NormProd(y1.m * y2.m, y1.e + y2.e)
    IN p[2] < q[2] \/ (p[2] = q[2] /\ p[1] <= q[1])
ProdLess(x1, x2, y1, y2) == ~ProdLeq(y1, y2, x1, x2)

(***************************************************************************)
(* C1.  After updateEk() returns, the Ek of the Na HHChannel that the      *)
(* engine reads equals reversal_potential(temperature, Na_out, Na_in) and  *)
(* that of the K HHChannel equals reversal_potential(temperature, K_out,   *)
(* K_in), from the values current at the call.  The code assigns the Ek of *)
(* the IonChannel objects, not of their HHChannels: the statement fails.   *)
(***************************************************************************)
C1_EngineEkRefreshed ==
    (Last.op = "updateEk" /\ Last.ret = None) =>
        /\ channel["Na"].chan.Ek =
               reversal_potential(squid.temperature, squid.Na_out, squid.Na_in)
        /\ channel["K"].chan.Ek =
               reversal_potential(squid.temperature, squid.K_out, squid.K_in)

(***************************************************************************)
(* C2.  After construction the Na and K HHChannels hold Gbar = 120.0 *     *)
(* area() and 36.0 * area(), and after specific_gNa = v or specific_gK = v *)
(* they hold v * area().  The code assigns the Gbar of the IonChannel      *)
(* objects; the HHChannels keep the 0.0 * area() of their construction.    *)
(***************************************************************************)
C2_EngineGbarStored ==
    /\ (Last.op = "SquidModel" /\ Last.ret = None) =>
           /\ channel["Na"].chan.Gbar = Mul(Lit(120, 1), area(compt))
           /\ channel["K"].chan.Gbar = Mul(Lit(36, 1), area(compt))
    /\ (Last.op = "set_specific" /\ Last.what = "gNa" /\ Last.ret = None) =>
           channel["Na"].chan.Gbar = Mul(Last.arg, area(compt))
    /\ (Last.op = "set_specific" /\ Last.what = "gK" /\ Last.ret = None) =>
           channel["K"].chan.Gbar = Mul(Last.arg, area(compt))

(***************************************************************************)
(* C3.  A specific quantity set to v > 0 and read back at once, at a       *)
(* positive length and diameter.                                           *)
(***************************************************************************)
SetThenGet ==
    /\ Prev.op = "set_specific" /\ Prev.ret = None
    /\ Last.op = "get_specific" /\ Last.what = Prev.what
    /\ Positive(Prev.arg)
    /\ Positive(compt.length) /\ Positive(compt.diameter)

\* C3 as claimed: the value read back is v itself.
C3_RoundTripExact == SetThenGet => Last.ret = Prev.arg

\* C3, amended: the value read back is v up to the rounding of the two to four
\* operations between them, |get - v| <= 5 * 2^-Precision * v, unless a result on
\* the way left the range of the floats (the value read back is then zero,
\* infinite, nan, or a ZeroDivisionError).
C3_RoundTripWithinRounding ==
    (SetThenGet /\ Normal(Last.ret)) => Close(Last.ret, Prev.arg)

C3_Witness ==
    /\ SetThenGet /\ Normal(Last.ret)
    /\ Last.what = "gl"
    /\ Last.ret # Prev.arg

(***************************************************************************)
(* C4.  A table asked of a gate whose power is zero is answered by an      *)
(* explicit "not applicable", never by an empty array.  get_alpha_m,       *)
(* get_beta_m, get_alpha_h and get_beta_h return np.array([]).             *)
(***************************************************************************)
C4_NoEmptyTable ==
    /\ (Last.op \in {"get_alpha_m", "get_beta_m"}
            /\ IsZero(channel[Last.on].chan.Xpower)) => Last.tbl.kind # "array"
    /\ (Last.op \in {"get_alpha_h", "get_beta_h"}
            /\ IsZero(channel[Last.on].chan.Ypower)) => Last.tbl.kind # "array"
    /\ (Last.op = "setupAlpha" /\ Last.what = "X"
            /\ IsZero(channel[Last.on].chan.Xpower)) => Last.ret = Bool("False")
    /\ (Last.op = "setupAlpha" /\ Last.what = "Y"
            /\ IsZero(channel[Last.on].chan.Ypower)) => Last.ret = Bool("False")

(***************************************************************************)
(* C5.  A model configured with a non-positive concentration or a zero     *)
(* length or diameter fails at construction with a configuration error,    *)
(* and no SquidAxon ever holds such a value.  The code checks nothing.     *)
(***************************************************************************)
ValidConfiguration(s, c) ==
    /\ Positive(s.K_out) /\ Positive(s.K_in)
    /\ Positive(s.Na_out) /\ Positive(s.Na_in)
    /\ ~IsZero(c.length) /\ ~IsZero(c.diameter)

C5_InvalidParametersRejected ==
    /\ (Last.op = "SquidModel" /\ ~ValidConfiguration(defaults, defaults)) =>
           Last.ret.cls = "ConfigurationError"
    /\ constructed => ValidConfiguration(squid, compt)

(***************************************************************************)
(* C6.  Every accessor takes the area from the length and diameter of the  *)
(* moment: a change of the geometry leaves Cm, Rm, Ra and both Gbar as     *)
(* they are, and a get returns the stored absolute value converted with    *)
(* the area of the geometry at the get.                                    *)
(***************************************************************************)
AreaNow == Mul(Mul(Mul(CM2_PER_UM2, compt.length), pi), compt.diameter)
XareaNow ==
    Div(Mul(Mul(Mul(CM2_PER_UM2, pi), compt.diameter), compt.diameter), Lit(4, 1))
ConvertedNow(q) ==
    CASE q = "ra" -> Div(Mul(compt.Ra, XareaNow), compt.length)
      [] q = "cm" -> Div(compt.Cm, AreaNow)
      [] q = "gl" -> Div(Lit(1, 1), Mul(compt.Rm, AreaNow))
      [] q = "rm" -> Mul(compt.Rm, AreaNow)
      [] q = "gNa" -> Div(channel["Na"].Gbar, AreaNow)
      [] q = "gK" -> Div(channel["K"].Gbar, AreaNow)
Stored == <<compt.Cm, compt.Rm, compt.Ra, channel["Na"].Gbar, channel["K"].Gbar>>

C6_AreaFromCurrentGeometry ==
    /\ [](Last.op = "get_specific" => Last.ret = ConvertedNow(Last.what))
    /\ [][/\ (constructed /\ <<compt.length, compt.diameter>>' #
                             <<compt.length, compt.diameter>>) => Stored' = Stored
          /\ (ncalls' # ncalls /\ Last'.op = "get_specific") => Stored' = Stored]_vars

C6_Witness ==
    /\ Prev.op \in {"length =", "diameter ="}
    /\ Last.op = "get_specific" /\ Last.what = "cm"
    /\ Normal(Last.ret)
    /\ Last.ret # defaults.specific_cm
    /\ compt.Cm = Mul(defaults.specific_cm,
                      Mul(Mul(Mul(CM2_PER_UM2, defaults.length), pi), defaults.diameter))

(***************************************************************************)
(* C7.  In every call of run, updateEk is invoked exactly once and before  *)
(* moose.reinit and moose.start: the engine is not started in a run        *)
(* without the refresh before it.                                          *)
(***************************************************************************)
C7_RefreshBeforeStart ==
    /\ \A i \in DOMAIN runLog :
           /\ runLog[i] = "updateEk" => i = 1
           /\ runLog[i] = "reinit" => (i = 2 /\ runLog[1] = "updateEk")
           /\ runLog[i] = "start" =>
                  (i = 3 /\ runLog[1] = "updateEk" /\ runLog[2] = "reinit")
    /\ (Last.op = "run" /\ Last.ret = None) =>
           runLog = <<"updateEk", "reinit", "start">>
    /\ (pc # 0 /\ runLog # <<>>) => runLog[1] = "updateEk"

C7_Witness ==
    /\ Last.op = "run" /\ Last.ret = None
    /\ engine.state = "started"
    /\ runLog = <<"updateEk", "reinit", "start">>

(***************************************************************************)
(* C8.  The three parameter sets, the default Em and initVm, and           *)
(* reversal_potential use one offset, also after EREST_ACT was given       *)
(* another value.  The class body used the EREST_ACT of the moment the     *)
(* class was defined; reversal_potential reads the one of the moment it    *)
(* is called.                                                              *)
(***************************************************************************)
C8_OneOffset ==
    /\ Na_m_params = Na_m_params_body(EREST_ACT)
    /\ Na_h_params = Na_h_params_body(EREST_ACT)
    /\ K_n_params = K_n_params_body(EREST_ACT)
    /\ defaults.Em = defaults_body(EREST_ACT).Em
    /\ defaults.initVm = defaults_body(EREST_ACT).initVm

(***************************************************************************)
(* C9.  reversal_potential at positive T, C_out, C_in.                     *)
(***************************************************************************)
PositiveArgs ==
    /\ rp.state = "done"
    /\ Positive(rp.T)
    /\ Positive(rp.a_out) /\ Positive(rp.a_in)
    /\ Positive(rp.b_out) /\ Positive(rp.b_in)

\* C9 as claimed: the result is finite, and a larger C_out / C_in does not give a
\* smaller one.
C9_FiniteAndMonotone ==
    PositiveArgs =>
        /\ IsFin(rp.va) /\ IsFin(rp.vb)
        /\ ProdLeq(rp.a_out, rp.b_in, rp.b_out, rp.a_in) => Leq(rp.va, rp.vb)

\* C9, amended: so it is when T < 2^(MaxExp - 6) and the quotient C_out / C_in,
\* as computed, is neither zero nor infinite.
InRange ==
    /\ Less(rp.T, Fin(HalfP, MaxExp - 6 - (Precision - 1)))
    /\ Normal(Div(rp.a_out, rp.a_in))
    /\ Normal(Div(rp.b_out, rp.b_in))

C9_FiniteAndMonotoneInRange ==
    (PositiveArgs /\ InRange) =>
        /\ IsFin(rp.va) /\ IsFin(rp.vb)
        /\ ProdLeq(rp.a_out, rp.b_in, rp.b_out, rp.a_in) => Leq(rp.va, rp.vb)

C9_Witness ==
    /\ PositiveArgs /\ InRange
    /\ ProdLess(rp.a_out, rp.b_in, rp.b_out, rp.a_in)
    /\ Less(rp.va, rp.vb)
    /\ rp.va.m < 0 /\ rp.vb.m > 0

(***************************************************************************)
(* C10.  setupAlpha returns True, and sets up the one gate asked for, only *)
(* for gate X with Xpower > 0 and gate Y with Ypower > 0; otherwise, gate  *)
(* Z with any Zpower included, it returns False and changes nothing.       *)
(* After construction Na has gateX (m) and gateY (h), K has gateX (n) and  *)
(* no gateY.                                                               *)
(***************************************************************************)
TableOf(params) ==
    [configured |-> TRUE, params |-> params,
     vdivs |-> VDIVS, vmin |-> VMIN, vmax |-> VMAX]

=============================================================================
